---- MODULE Spec2Model ----
(***************************************************************************)
(* Model of src/server/routes/revision.js: the five entity change          *)
(* classifiers (formatAuthorChange .. formatEditionGroupChange),            *)
(* diffRevisionsWithParents, and the GET /:id route handler that joins the  *)
(* base revision lookup with the five per-kind diff promises.               *)
(***************************************************************************)
EXTENDS Integers, Sequences, FiniteSets, TLC

VARIABLES
    entityKind,       \* classifier run: which classifier is applied
    change,           \* classifier run: the raw change handed to it
    ruleOrder,        \* classifier run: order in which the chain's rules are tried
    swaps,            \* classifier run: number of rule transpositions applied
    result,           \* classifier run: what the classifier (source order) returned
    permuted,         \* classifier run: what the chain returns under ruleOrder
    cpc,              \* classifier run: "ready" | "done"
    revisionPromise,  \* GET /:id: "pending" | "found" | "absent" | "rejected"
    fetched,          \* GET /:id: per kind, state of fetchAll
    rows,             \* GET /:id: per kind, the fetched revisions and their progress
    diffsPromise,     \* GET /:id: per kind, state of <kind>DiffsPromise
    joinState,        \* GET /:id: "pending" | "fulfilled" | "rejected"
    sends,            \* GET /:id: the diff lists handed to res.send, in order
    nextCalls         \* GET /:id: the errors handed to next, in order

classifyVars == <<entityKind, change, ruleOrder, swaps, result, permuted, cpc>>
routeVars == <<revisionPromise, fetched, rows, diffsPromise, joinState,
               sends, nextCalls>>
vars == <<entityKind, change, ruleOrder, swaps, result, permuted, cpc,
          revisionPromise, fetched, rows, diffsPromise, joinState,
          sends, nextCalls>>

(***************************************************************************)
(* Bounds                                                                  *)
(***************************************************************************)
\* longest change path drawn
MaxPathLen == 2
\* transpositions applied to a classifier's rule order
MaxSwaps == 1
\* revisions the five fetchAll calls return for the id, taken together
MaxRows == 2

(***************************************************************************)
(* Values                                                                  *)
(***************************************************************************)
Kinds == {"Author", "Edition", "EditionGroup", "Publisher", "Work"}

\* what a classifier returns when no rule matches
Null == [tag |-> "null"]
EmptyArray == [tag |-> "[]"]
\* an omitted label argument
NoLabel == "undefined"

\* errors: a name, and for a store error the kind and row it came from
Err(name, k, i) == [name |-> name, kind |-> k, row |-> i]
NotFoundError == Err("NotFoundError", "", 0)

\* the revisions of a collection, their parents and related entities
Rev(k, i) == <<"revision", k, i>>
ParentOf(rev) == <<"parent", rev[2], rev[3]>>
EntityOf(rev) == <<"entity", rev[2], rev[3]>>
NotStarted == <<>>

Roots == {"beginDate", "endDate", "gender", "ended", "type", "beginArea",
          "endArea", "area", "editionGroupBbid", "publisherSet",
          "releaseEventSet", "languageSet", "width", "height", "depth",
          "weight", "pages", "editionFormat", "editionStatus", "annotation"}
SubSegments == {"name", "id"}
ChangeKinds == {"added", "removed", "modified"}

RECURSIVE PathsOfLen(_)
PathsOfLen(n) ==
    IF n = 1 THEN {<<r>> : r \in Roots}
    ELSE {Append(p, s) : p \in PathsOfLen(n - 1), s \in SubSegments}

Paths == UNION {PathsOfLen(n) : n \in 1..MaxPathLen}
RawChanges == [path : Paths, kind : ChangeKinds]

(***************************************************************************)
(* Library and helper functions the classifiers call                       *)
(***************************************************************************)
\* lodash _.isEqual on two arrays of strings
isEqual(a, b) == a = b

\* lodash _.startCase on the four dimension field names
startCase(s) ==
    CASE s = "width" -> "Width"
      [] s = "height" -> "Height"
      [] s = "depth" -> "Depth"
      [] s = "weight" -> "Weight"
      [] OTHER -> s

Formatted(formatter, label, c) ==
    [tag |-> "change", formatter |-> formatter, label |-> label, kind |-> c.kind]

formatScalarChange(c, label) == Formatted("scalar", label, c)
formatEndedChange(c) == Formatted("ended", "Ended", c)
formatTypeChange(c, label) == Formatted("type", label, c)
formatGenderChange(c) == Formatted("gender", "Gender", c)
formatAreaChange(c, label) ==
    Formatted("area", IF label = NoLabel THEN "Area" ELSE label, c)

publisherSetChanged(c) == c.path[1] = "publisherSet"
publisherSetFormat(c) == Formatted("publisherSet", "Publishers", c)
releaseEventSetChanged(c) == c.path[1] = "releaseEventSet"
releaseEventSetFormat(c) == Formatted("releaseEventSet", "Release Events", c)
languageSetChanged(c) == c.path[1] = "languageSet"
languageSetFormat(c) == Formatted("languageSet", "Languages", c)

Rule(match, value) == [match |-> match, value |-> value]

\* An if-chain: the value of the first rule, in the given order, whose test
\* holds; otherwise the chain's final return value.
RECURSIVE Chain(_, _, _)
Chain(rules, order, otherwise) ==
    IF order = <<>> THEN otherwise
    ELSE IF rules[Head(order)].match THEN rules[Head(order)].value
    ELSE Chain(rules, Tail(order), otherwise)

SourceOrder(rules) == [i \in 1..Len(rules) |-> i]

(***************************************************************************)
(* The classifiers: each is an ordered chain of path tests                 *)
(***************************************************************************)
\* formatAuthorChange without the ['beginArea', 'name'] alias
AuthorRules_noNameAlias(c) == <<
    Rule(isEqual(c.path, <<"beginDate">>), formatScalarChange(c, "Begin Date")),
    Rule(isEqual(c.path, <<"endDate">>), formatScalarChange(c, "End Date")),
    Rule(isEqual(c.path, <<"gender">>), formatGenderChange(c)),
    Rule(isEqual(c.path, <<"ended">>), formatEndedChange(c)),
    Rule(isEqual(c.path, <<"type">>), formatTypeChange(c, "Author Type")),
    Rule(isEqual(c.path, <<"beginArea">>), formatAreaChange(c, "Begin Area")),
    Rule(isEqual(c.path, <<"endArea">>)
            \/ isEqual(c.path, <<"endArea", "name">>),
         formatAreaChange(c, "End Area")) >>

AuthorRules(c) == <<
    Rule(isEqual(c.path, <<"beginDate">>), formatScalarChange(c, "Begin Date")),
    Rule(isEqual(c.path, <<"endDate">>), formatScalarChange(c, "End Date")),
    Rule(isEqual(c.path, <<"gender">>), formatGenderChange(c)),
    Rule(isEqual(c.path, <<"ended">>), formatEndedChange(c)),
    Rule(isEqual(c.path, <<"type">>), formatTypeChange(c, "Author Type")),
    Rule(isEqual(c.path, <<"beginArea">>)
            \/ isEqual(c.path, <<"beginArea", "name">>),
         formatAreaChange(c, "Begin Area")),
    Rule(isEqual(c.path, <<"endArea">>)
            \/ isEqual(c.path, <<"endArea", "name">>),
         formatAreaChange(c, "End Area")) >>

formatAuthorChange(c) == Chain(AuthorRules(c), SourceOrder(AuthorRules(c)), Null)

EditionRules(c) == <<
    Rule(isEqual(c.path, <<"editionGroupBbid">>),
         formatScalarChange(c, "EditionGroup")),
    Rule(publisherSetChanged(c), publisherSetFormat(c)),
    Rule(releaseEventSetChanged(c), releaseEventSetFormat(c)),
    Rule(languageSetChanged(c), languageSetFormat(c)),
    Rule(isEqual(c.path, <<"width">>) \/ isEqual(c.path, <<"height">>)
            \/ isEqual(c.path, <<"depth">>) \/ isEqual(c.path, <<"weight">>),
         formatScalarChange(c, startCase(c.path[1]))),
    Rule(isEqual(c.path, <<"pages">>), formatScalarChange(c, "Page Count")),
    Rule(isEqual(c.path, <<"editionFormat">>),
         formatTypeChange(c, "Edition Format")),
    Rule(isEqual(c.path, <<"editionStatus">>),
         formatTypeChange(c, "Edition Status")) >>

formatEditionChange(c) ==
    Chain(EditionRules(c), SourceOrder(EditionRules(c)), Null)

\* formatPublisherChange reporting ['area', 'name'] as a scalar of its own
PublisherRules_nameAsScalar(c) == <<
    Rule(isEqual(c.path, <<"beginDate">>), formatScalarChange(c, "Begin Date")),
    Rule(isEqual(c.path, <<"endDate">>), formatScalarChange(c, "End Date")),
    Rule(isEqual(c.path, <<"ended">>), formatEndedChange(c)),
    Rule(isEqual(c.path, <<"type">>), formatTypeChange(c, "Publisher Type")),
    Rule(isEqual(c.path, <<"area">>), formatAreaChange(c, NoLabel)),
    Rule(isEqual(c.path, <<"area", "name">>),
         formatScalarChange(c, "Area Name")) >>

PublisherRules(c) == <<
    Rule(isEqual(c.path, <<"beginDate">>), formatScalarChange(c, "Begin Date")),
    Rule(isEqual(c.path, <<"endDate">>), formatScalarChange(c, "End Date")),
    Rule(isEqual(c.path, <<"ended">>), formatEndedChange(c)),
    Rule(isEqual(c.path, <<"type">>), formatTypeChange(c, "Publisher Type")),
    Rule(isEqual(c.path, <<"area">>) \/ isEqual(c.path, <<"area", "name">>),
         formatAreaChange(c, NoLabel)) >>

formatPublisherChange(c) ==
    Chain(PublisherRules(c), SourceOrder(PublisherRules(c)), Null)

\* formatWorkChange whose type test also accepts the language set's root
WorkRules_overlap(c) == <<
    Rule(languageSetChanged(c), languageSetFormat(c)),
    Rule(c.path[1] \in {"type", "languageSet"},
         formatTypeChange(c, "Work Type")) >>

WorkRules(c) == <<
    Rule(languageSetChanged(c), languageSetFormat(c)),
    Rule(isEqual(c.path, <<"type">>), formatTypeChange(c, "Work Type")) >>

formatWorkChange(c) == Chain(WorkRules(c), SourceOrder(WorkRules(c)), Null)

EditionGroupRules(c) == <<
    Rule(isEqual(c.path, <<"type">>),
         formatTypeChange(c, "Edition Group Type")) >>

formatEditionGroupChange(c) ==
    Chain(EditionGroupRules(c), SourceOrder(EditionGroupRules(c)), EmptyArray)

\* the rule table, final return value and classifier of each kind
RulesOf(k, c) ==
    CASE k = "Author" -> AuthorRules(c)
      [] k = "Edition" -> EditionRules(c)
      [] k = "EditionGroup" -> EditionGroupRules(c)
      [] k = "Publisher" -> PublisherRules(c)
      [] k = "Work" -> WorkRules(c)

OtherwiseOf(k) == IF k = "EditionGroup" THEN EmptyArray ELSE Null

\* entityFormatter(change) for a formatter passed by name
ApplyFormatter(f, c) ==
    CASE f = "formatAuthorChange" -> formatAuthorChange(c)
      [] f = "formatEditionChange" -> formatEditionChange(c)
      [] f = "formatEditionGroupChange" -> formatEditionGroupChange(c)
      [] f = "formatPublisherChange" -> formatPublisherChange(c)
      [] f = "formatWorkChange" -> formatWorkChange(c)

\* the classifier the route handler pairs with each entity type label
FormatterOf(k) ==
    CASE k = "Author" -> "formatAuthorChange"
      [] k = "Edition" -> "formatEditionChange"
      [] k = "EditionGroup" -> "formatEditionGroupChange"
      [] k = "Publisher" -> "formatPublisherChange"
      [] k = "Work" -> "formatWorkChange"

Classifier(k, c) == ApplyFormatter(FormatterOf(k), c)

MatchCount(k, c) ==
    Cardinality({i \in 1..Len(RulesOf(k, c)) : RulesOf(k, c)[i].match})

SwapAt(order, i, j) ==
    [n \in 1..Len(order) |->
        IF n = i THEN order[j] ELSE IF n = j THEN order[i] ELSE order[n]]

(***************************************************************************)
(* Classifier runs: a kind and a raw change are drawn, the rule order may  *)
(* be permuted, and the classifier is applied.                             *)
(***************************************************************************)
RouteIdle ==
    /\ revisionPromise = "pending"
    /\ fetched = [k \in Kinds |-> "pending"]
    /\ rows = [k \in Kinds |-> <<>>]
    /\ diffsPromise = [k \in Kinds |-> "pending"]
    /\ joinState = "pending"
    /\ sends = <<>>
    /\ nextCalls = <<>>

InitClassify ==
    /\ entityKind \in Kinds
    /\ change \in RawChanges
    /\ ruleOrder = SourceOrder(RulesOf(entityKind, change))
    /\ swaps = 0
    /\ result = Null
    /\ permuted = Null
    /\ cpc = "ready"
    /\ RouteIdle

Reorder(i, j) ==
    /\ cpc = "ready"
    /\ swaps < MaxSwaps
    /\ i < j
    /\ ruleOrder' = SwapAt(ruleOrder, i, j)
    /\ swaps' = swaps + 1
    /\ UNCHANGED <<entityKind, change, result, permuted, cpc>>
    /\ UNCHANGED routeVars

Classify ==
    /\ cpc = "ready"
    /\ result' = Classifier(entityKind, change)
    /\ permuted' = Chain(RulesOf(entityKind, change), ruleOrder,
                         OtherwiseOf(entityKind))
    /\ cpc' = "done"
    /\ UNCHANGED <<entityKind, change, ruleOrder, swaps>>
    /\ UNCHANGED routeVars

NextClassify ==
    \/ \E i, j \in 1..Len(ruleOrder) : Reorder(i, j)
    \/ Classify

SpecClassify == InitClassify /\ [][NextClassify]_vars

(***************************************************************************)
(* GET /:id                                                                *)
(***************************************************************************)
\* The revision store: what revision.diff(parent) resolves to. Odd rows carry
\* a type change and a change to an undisplayed field, even rows a language
\* set change; a diff against anything but the revision's own parent differs.
StoreDiff(rev, parent) ==
    IF parent # ParentOf(rev)
    THEN <<[path |-> <<"ended">>, kind |-> "removed"]>>
    ELSE IF rev[3] % 2 = 1
    THEN <<[path |-> <<"type">>, kind |-> "modified"],
           [path |-> <<"annotation">>, kind |-> "added"]>>
    ELSE <<[path |-> <<"languageSet", "id">>, kind |-> "added"]>>

NewRow == [st |-> "parent", diffArgs |-> NotStarted, changes |-> <<>>]

RowCount == Len(rows["Author"]) + Len(rows["Edition"])
            + Len(rows["EditionGroup"]) + Len(rows["Publisher"])
            + Len(rows["Work"])

\* diff called on the collection's first revision, whatever the row
DiffCall_firstRevision(k, i, parent) == <<Rev(k, 1), parent>>

\* the receiver and argument of revision.diff(parent) for row i of kind k
DiffCall(k, i, parent) == <<Rev(k, i), parent>>

\* Promise.props({changes, entity}) of row i once its diff resolved
PromiseProps(k, i, rs) ==
    [changes |-> rs[i].changes, entity |-> EntityOf(Rev(k, i))]

\* what Promise.all resolves to: one value per input promise, in input order
PromiseAll(k, rs) ==
    [i \in 1..Len(rs) |-> PromiseProps(k, i, rs)]

diffRevisionsWithParents(k, rs) == PromiseAll(k, rs)

AllDone(rs) == \A i \in 1..Len(rs) : rs[i].st = "done"

\* the promises handed to Promise.join in the order of the concatenation
JoinArgs_concatOrder == <<"Author", "Edition", "EditionGroup", "Publisher", "Work">>

\* the kinds in the order their promises are handed to Promise.join, after
\* revisionPromise
JoinArgs == <<"Author", "Edition", "Work", "Publisher", "EditionGroup">>

\* a join that leaves workDiffsPromise out
JoinReady_withoutWork ==
    /\ revisionPromise \in {"found", "absent"}
    /\ \A k \in Kinds \ {"Work"} : diffsPromise[k] = "fulfilled"

\* Promise.join runs its callback once all six promises are fulfilled
JoinReady ==
    /\ revisionPromise \in {"found", "absent"}
    /\ \A j \in 1..Len(JoinArgs) : diffsPromise[JoinArgs[j]] = "fulfilled"

\* the value the j-th diff promise of the join resolved to
JoinValue(j) ==
    diffRevisionsWithParents(JoinArgs[j], rows[JoinArgs[j]])

authorDiffs == JoinValue(1)
editionDiffs == JoinValue(2)
workDiffs == JoinValue(3)
publisherDiffs == JoinValue(4)
editionGroupDiffs == JoinValue(5)

\* _.flatten(_.compact(...)): null and empty results are dropped
RECURSIVE Compact(_)
Compact(xs) ==
    IF xs = <<>> THEN <<>>
    ELSE IF Head(xs) \in {Null, EmptyArray} THEN Compact(Tail(xs))
    ELSE <<Head(xs)>> \o Compact(Tail(xs))

formatEntityDiffs(diffs, entityType, entityFormatter) ==
    [i \in 1..Len(diffs) |->
        [entity |-> diffs[i].entity,
         type |-> entityType,
         changes |-> Compact([j \in 1..Len(diffs[i].changes) |->
                        ApplyFormatter(entityFormatter, diffs[i].changes[j])])]]

\* the diffs the join callback concatenates
ConcatDiffs ==
    formatEntityDiffs(authorDiffs, "Author", "formatAuthorChange")
    \o formatEntityDiffs(editionDiffs, "Edition", "formatEditionChange")
    \o formatEntityDiffs(editionGroupDiffs, "EditionGroup",
                         "formatEditionGroupChange")
    \o formatEntityDiffs(publisherDiffs, "Publisher", "formatPublisherChange")
    \o formatEntityDiffs(workDiffs, "Work", "formatWorkChange")

\* a join that reports every rejection it sees
RejectJoin_everyRejection(err) ==
    /\ joinState' = "rejected"
    /\ nextCalls' = Append(nextCalls, err)

\* a rejection reaching Promise.join: it rejects with the first one only, and
\* .catch(next) hands that reason to next before any other completion runs
RejectJoin(err) ==
    IF joinState = "pending"
    THEN joinState' = "rejected" /\ nextCalls' = Append(nextCalls, err)
    ELSE UNCHANGED <<joinState, nextCalls>>

\* a rejection reaching the Promise.all of kind k, and through it the join
RejectKind(k, err) ==
    IF diffsPromise[k] = "pending"
    THEN /\ diffsPromise' = [diffsPromise EXCEPT ![k] = "rejected"]
         /\ RejectJoin(err)
    ELSE UNCHANGED <<diffsPromise, joinState, nextCalls>>

ClassifyIdle ==
    /\ entityKind = "Author"
    /\ change = [path |-> <<"type">>, kind |-> "modified"]
    /\ ruleOrder = <<>>
    /\ swaps = 0
    /\ result = Null
    /\ permuted = Null
    /\ cpc = "idle"

Init == ClassifyIdle /\ RouteIdle

RevisionFetchResolve(found) ==
    /\ revisionPromise = "pending"
    /\ revisionPromise' = IF found THEN "found" ELSE "absent"
    /\ UNCHANGED <<fetched, rows, diffsPromise, joinState, sends,
                   nextCalls>>
    /\ UNCHANGED classifyVars

RevisionFetchReject ==
    /\ revisionPromise = "pending"
    /\ revisionPromise' = "rejected"
    /\ RejectJoin(Err("RevisionFetchError", "", 0))
    /\ UNCHANGED <<fetched, rows, diffsPromise, sends>>
    /\ UNCHANGED classifyVars

FetchAllResolve(k, n) ==
    /\ fetched[k] = "pending"
    /\ RowCount + n <= MaxRows
    /\ fetched' = [fetched EXCEPT ![k] = "fulfilled"]
    /\ rows' = [rows EXCEPT ![k] = [i \in 1..n |-> NewRow]]
    /\ diffsPromise' = IF n = 0
                       THEN [diffsPromise EXCEPT ![k] = "fulfilled"]
                       ELSE diffsPromise
    /\ UNCHANGED <<revisionPromise, joinState, sends, nextCalls>>
    /\ UNCHANGED classifyVars

FetchAllReject(k) ==
    /\ fetched[k] = "pending"
    /\ fetched' = [fetched EXCEPT ![k] = "rejected"]
    /\ RejectKind(k, Err("FetchAllError", k, 0))
    /\ UNCHANGED <<revisionPromise, rows, sends>>
    /\ UNCHANGED classifyVars

ParentResolve(k, i) ==
    /\ i \in 1..Len(rows[k])
    /\ rows[k][i].st = "parent"
    /\ rows' = [rows EXCEPT ![k][i].st = "diff",
                            ![k][i].diffArgs = DiffCall(k, i, ParentOf(Rev(k, i)))]
    /\ UNCHANGED <<revisionPromise, fetched, diffsPromise, joinState,
                   sends, nextCalls>>
    /\ UNCHANGED classifyVars

ParentReject(k, i) ==
    /\ i \in 1..Len(rows[k])
    /\ rows[k][i].st = "parent"
    /\ rows' = [rows EXCEPT ![k][i].st = "parentRejected"]
    /\ RejectKind(k, Err("ParentError", k, i))
    /\ UNCHANGED <<revisionPromise, fetched, sends>>
    /\ UNCHANGED classifyVars

DiffResolve(k, i) ==
    /\ i \in 1..Len(rows[k])
    /\ rows[k][i].st = "diff"
    /\ rows' = [rows EXCEPT ![k][i].st = "done",
                            ![k][i].changes = StoreDiff(rows[k][i].diffArgs[1],
                                                        rows[k][i].diffArgs[2])]
    /\ diffsPromise' = IF AllDone(rows'[k]) /\ diffsPromise[k] = "pending"
                       THEN [diffsPromise EXCEPT ![k] = "fulfilled"]
                       ELSE diffsPromise
    /\ UNCHANGED <<revisionPromise, fetched, joinState, sends, nextCalls>>
    /\ UNCHANGED classifyVars

DiffReject(k, i) ==
    /\ i \in 1..Len(rows[k])
    /\ rows[k][i].st = "diff"
    /\ rows' = [rows EXCEPT ![k][i].st = "diffRejected"]
    /\ RejectKind(k, Err("DiffError", k, i))
    /\ UNCHANGED <<revisionPromise, fetched, sends>>
    /\ UNCHANGED classifyVars

\* a callback without the check for a missing revision
RevisionMissing_unchecked == FALSE

\* !revision
RevisionMissing == revisionPromise = "absent"

\* the callback of Promise.join; what it throws reaches .catch(next)
JoinCallback ==
    /\ joinState = "pending"
    /\ JoinReady
    /\ IF RevisionMissing
       THEN /\ RejectJoin(NotFoundError)
            /\ UNCHANGED sends
       ELSE /\ sends' = Append(sends, ConcatDiffs)
            /\ joinState' = "fulfilled"
            /\ UNCHANGED nextCalls
    /\ UNCHANGED <<revisionPromise, fetched, rows, diffsPromise>>
    /\ UNCHANGED classifyVars

Next ==
    \/ \E found \in BOOLEAN : RevisionFetchResolve(found)
    \/ RevisionFetchReject
    \/ \E k \in Kinds, n \in 0..MaxRows : FetchAllResolve(k, n)
    \/ \E k \in Kinds : FetchAllReject(k)
    \/ \E k \in Kinds, i \in 1..MaxRows : ParentResolve(k, i)
    \/ \E k \in Kinds, i \in 1..MaxRows : ParentReject(k, i)
    \/ \E k \in Kinds, i \in 1..MaxRows : DiffResolve(k, i)
    \/ \E k \in Kinds, i \in 1..MaxRows : DiffReject(k, i)
    \/ JoinCallback

Spec == Init /\ [][Next]_vars

\* nothing is pending any more
Quiescent ==
    /\ revisionPromise # "pending"
    /\ \A k \in Kinds :
        /\ fetched[k] # "pending"
        /\ \A i \in 1..Len(rows[k]) : rows[k][i].st \notin {"parent", "diff"}
    /\ joinState \in {"fulfilled", "rejected"}

(***************************************************************************)
(* Properties of GET /:id                                                  *)
(***************************************************************************)
StoreErrors == {"RevisionFetchError", "FetchAllError", "ParentError", "DiffError"}

AllKindsFulfilled == \A k \in Kinds : diffsPromise[k] = "fulfilled"

AnyRejection ==
    \/ revisionPromise = "rejected"
    \/ \E k \in Kinds :
        \/ fetched[k] = "rejected"
        \/ \E i \in 1..Len(rows[k]) :
              rows[k][i].st \in {"parentRejected", "diffRejected"}

\* the promise an error handed to next came from was rejected
Propagated(err) ==
    CASE err.name = "RevisionFetchError" -> revisionPromise = "rejected"
      [] err.name = "FetchAllError" -> fetched[err.kind] = "rejected"
      [] err.name = "ParentError" ->
            rows[err.kind][err.row].st = "parentRejected"
      [] err.name = "DiffError" -> rows[err.kind][err.row].st = "diffRejected"
      [] OTHER -> FALSE

\* C1: when the base revision lookup resolves to no record, nothing is ever
\* sent and the operation fails: once the join has settled the error handler
\* has been called exactly once, and whatever the five diff branches
\* resolved to, what it received is a NotFoundError.
C1_NotFound ==
    revisionPromise = "absent" =>
        /\ sends = <<>>
        /\ joinState # "fulfilled"
        /\ joinState = "rejected" => Len(nextCalls) = 1
        /\ (AllKindsFulfilled /\ joinState = "rejected")
              => nextCalls = <<NotFoundError>>

C1_Witness ==
    /\ revisionPromise = "absent"
    /\ nextCalls = <<NotFoundError>>
    /\ \E k \in Kinds : Len(rows[k]) > 0

\* the fixed order of the kinds in the diff list
KindOrder == <<"Author", "Edition", "EditionGroup", "Publisher", "Work">>
KindIndex(k) == CHOOSE n \in 1..Len(KindOrder) : KindOrder[n] = k

\* the block of a diff list that belongs to the given entity
BlocksOf(d, e) == {a \in 1..Len(d) : d[a].entity = e}

\* C2: in every diff list sent, the blocks appear in the kind order Author,
\* Edition, EditionGroup, Publisher, Work (and in row order within a kind),
\* there is exactly one block per fetched revision, and each block carries
\* the label of its entity's kind and the changes of its own revision as
\* classified by that kind's classifier, whatever the completion order was.
C2_FixedKindOrder ==
    \A s \in 1..Len(sends) :
        LET d == sends[s] IN
        /\ \A a, b \in 1..Len(d) :
              a < b =>
                 \/ KindIndex(d[a].type) < KindIndex(d[b].type)
                 \/ /\ d[a].type = d[b].type
                    /\ d[a].entity[3] < d[b].entity[3]
        /\ \A k \in Kinds : \A i \in 1..Len(rows[k]) :
              Cardinality(BlocksOf(d, EntityOf(Rev(k, i)))) = 1
        /\ \A a \in 1..Len(d) :
              LET k == d[a].entity[2]
                  raw == StoreDiff(Rev(k, d[a].entity[3]),
                                   ParentOf(Rev(k, d[a].entity[3])))
              IN /\ d[a].type = k
                 /\ d[a].changes =
                       Compact([j \in 1..Len(raw) |-> Classifier(k, raw[j])])

C2_Witness ==
    /\ Len(sends) = 1
    /\ Len(sends[1]) = 2
    /\ sends[1][1].type = "EditionGroup"
    /\ sends[1][2].type = "Work"

\* C3: a response is sent only after the base revision lookup and all five
\* per-kind diff resolutions have completed: whenever something has been
\* sent, none of the six promises, and no parent() or diff() of any fetched
\* revision, is pending.
C3_SendAfterAllSix ==
    sends # <<>> =>
        /\ revisionPromise # "pending"
        /\ \A k \in Kinds :
              /\ fetched[k] # "pending"
              /\ diffsPromise[k] # "pending"
              /\ \A i \in 1..Len(rows[k]) :
                    rows[k][i].st \notin {"parent", "diff"}

C3_Witness ==
    /\ sends # <<>>
    /\ Len(rows["Work"]) > 0
    /\ Len(rows["Author"]) > 0

\* C4: a failure of one kind's branch while the base revision exists is not
\* an error: once nothing is pending, that kind has contributed no block and
\* the diff set of the other kinds has been sent.
C4_BranchFailureIsolated ==
    (/\ Quiescent
     /\ revisionPromise = "found"
     /\ \E k \in Kinds : diffsPromise[k] = "rejected")
        => /\ Len(sends) = 1
           /\ nextCalls = <<>>
           /\ \A a \in 1..Len(sends[1]) :
                 diffsPromise[sends[1][a].type] # "rejected"

\* C5: if the base revision lookup or any fetchAll, parent() or diff() of a
\* branch rejects, nothing is ever sent and the error handler is invoked
\* exactly once, with the reason of a promise that did reject, however many
\* of the promises reject.
C5_RejectionPropagates ==
    AnyRejection =>
        /\ sends = <<>>
        /\ Len(nextCalls) = 1
        /\ nextCalls[1].name \in StoreErrors
        /\ Propagated(nextCalls[1])

C5_Witness ==
    /\ revisionPromise = "rejected"
    /\ \E k \in Kinds : fetched[k] = "rejected"
    /\ \E k \in Kinds : \E i \in 1..Len(rows[k]) : rows[k][i].st = "diffRejected"
    /\ Len(nextCalls) = 1

\* C10: diff is started for a revision only once its parent() has resolved,
\* on that revision and with its own parent; and when the list of a kind
\* resolves it holds exactly one entry per fetched revision, in input order,
\* entry i carrying the diff of revision i against its own parent and the
\* entity related to revision i.
C10_DiffsWithParents ==
    \A k \in Kinds :
        /\ \A i \in 1..Len(rows[k]) :
              /\ rows[k][i].st = "parent" => rows[k][i].diffArgs = NotStarted
              /\ rows[k][i].diffArgs # NotStarted =>
                    rows[k][i].diffArgs = <<Rev(k, i), ParentOf(Rev(k, i))>>
        /\ diffsPromise[k] = "fulfilled" =>
              LET v == diffRevisionsWithParents(k, rows[k]) IN
              /\ Len(v) = Len(rows[k])
              /\ \A i \in 1..Len(v) :
                    /\ v[i].entity = EntityOf(Rev(k, i))
                    /\ v[i].changes = StoreDiff(Rev(k, i), ParentOf(Rev(k, i)))

C10_Witness ==
    \E k \in Kinds :
        /\ diffsPromise[k] = "fulfilled"
        /\ Len(rows[k]) >= 2

(***************************************************************************)
(* Properties of the classifiers                                           *)
(***************************************************************************)
\* the fields each kind's classifier is documented to recognize
RecognizedFields(k) ==
    CASE k = "Author" -> {"beginDate", "endDate", "gender", "ended", "type",
                          "beginArea", "endArea"}
      [] k = "Edition" -> {"editionGroupBbid", "publisherSet",
                           "releaseEventSet", "languageSet", "width", "height",
                           "depth", "weight", "pages", "editionFormat",
                           "editionStatus"}
      [] k = "EditionGroup" -> {"type"}
      [] k = "Publisher" -> {"beginDate", "endDate", "ended", "type", "area"}
      [] k = "Work" -> {"languageSet", "type"}

AreaFields == {"beginArea", "endArea", "area"}
SetFields == {"publisherSet", "releaseEventSet", "languageSet"}

Dropped(r) == r \in {Null, EmptyArray}

\* the raw changes that differ from c at most in the trailing path segments
SameRoot(c) ==
    {c2 \in RawChanges : c2.path[1] = c.path[1] /\ c2.kind = c.kind}

\* C6: for every kind and every raw change whose path root is not a
\* recognized field of the kind, the kind's classifier returns null.
C6_UnrecognizedIsNull ==
    (cpc = "done" /\ change.path[1] \notin RecognizedFields(entityKind))
        => result = Null

\* C7 as stated: two raw changes with paths of one or two segments and equal
\* first segments (and equal other fields) are classified alike, recognized
\* or not, whatever the trailing segment.
C7_FirstSegmentDecides ==
    (cpc = "done" /\ Len(change.path) <= 2) =>
        \A c2 \in SameRoot(change) :
            Len(c2.path) <= 2 => Classifier(entityKind, c2) = result

\* C7 as amended: classification looks at the whole path. Two raw changes
\* with equal first segments that are both recognized select the same
\* formatter and label; and a field that is not set-valued is recognized
\* exactly at its one-segment path, an area field also at [field, 'name'].
C7_WholePathDecides ==
    cpc = "done" =>
        /\ \A c2 \in SameRoot(change) :
              (~Dropped(result) /\ ~Dropped(Classifier(entityKind, c2)))
                  => Classifier(entityKind, c2) = result
        /\ change.path[1] \notin SetFields =>
              (~Dropped(result) <=>
                  /\ change.path[1] \in RecognizedFields(entityKind)
                  /\ \/ change.path = <<change.path[1]>>
                     \/ /\ change.path[1] \in AreaFields
                        /\ change.path = <<change.path[1], "name">>)

C7_Witness ==
    /\ cpc = "done"
    /\ entityKind = "Publisher"
    /\ change.path = <<"area", "name">>
    /\ result = Classifier("Publisher", [change EXCEPT !.path = <<"area">>])
    /\ Dropped(Classifier("Publisher", [change EXCEPT !.path = <<"area", "id">>]))

\* C8: on an Author a change at ['beginArea'] or ['beginArea', 'name'] goes
\* to the area formatter with label 'Begin Area', one at ['endArea'] or
\* ['endArea', 'name'] with label 'End Area'; on a Publisher a change at
\* ['area'] or ['area', 'name'] goes to the area formatter without a label,
\* so that the default label 'Area' is used.
C8_AreaEquivalence ==
    cpc = "done" =>
        /\ (entityKind = "Author"
              /\ change.path \in {<<"beginArea">>, <<"beginArea", "name">>})
                 => result = Formatted("area", "Begin Area", change)
        /\ (entityKind = "Author"
              /\ change.path \in {<<"endArea">>, <<"endArea", "name">>})
                 => result = Formatted("area", "End Area", change)
        /\ (entityKind = "Publisher"
              /\ change.path \in {<<"area">>, <<"area", "name">>})
                 => result = Formatted("area", "Area", change)

C8_Witness ==
    /\ cpc = "done"
    /\ entityKind = "Author"
    /\ change.path = <<"beginArea", "name">>
    /\ result.label = "Begin Area"

\* C9: for every kind and raw change at most one rule of the classifier's
\* chain matches; the change is reported exactly when one rule matches and
\* dropped otherwise; and trying the rules in another order gives the same
\* result.
C9_RulesDisjoint ==
    cpc = "done" =>
        /\ MatchCount(entityKind, change) <= 1
        /\ MatchCount(entityKind, change) = 1 <=> ~Dropped(result)
        /\ permuted = result

C9_Witness ==
    /\ cpc = "done"
    /\ entityKind = "Edition"
    /\ ruleOrder[1] = 4
    /\ change.path[1] = "languageSet"
    /\ result.formatter = "languageSet"

====
